---- MODULE Spec2Model ----
(***************************************************************************)
(* failerr: failure values as plain tagged records.                        *)
(*                                                                         *)
(* The model is a small JavaScript heap on which the module body of        *)
(* src/src/failerr.ts is evaluated (once per loaded copy of the module),   *)
(* its two exports mkFail and isFail are called, and caller code builds    *)
(* and writes ordinary values.                                             *)
(***************************************************************************)
EXTENDS Integers, Sequences, FiniteSets, TLC

\* Bound of the model: objects allocated by mkFail and by caller code.
MaxAllocs == 2

\* The loaded copies of the module: the first, and a second one (a
\* duplicate install, another bundle, another realm), each with its own
\* evaluation of the module body.
Instances == {1, 2}

VARIABLES heap, modules, symbols, made, prov, last

vars == <<heap, modules, symbols, made, prov, last>>

----------------------------------------------------------------------------
\* JavaScript values.  A value is a record [t, n, s]; objects are references
\* (addresses into heap), so identity of objects is equality of addresses.

Undefined == [t |-> "undefined", n |-> 0, s |-> ""]
Null == [t |-> "null", n |-> 0, s |-> ""]
Num(n) == [t |-> "number", n |-> n, s |-> ""]
Str(s) == [t |-> "string", n |-> 0, s |-> s]
Bool(b) == [t |-> "boolean", n |-> IF b THEN 1 ELSE 0, s |-> ""]
Ref(a) == [t |-> "object", n |-> a, s |-> ""]

\* A property slot that holds nothing (not a JavaScript value).
Absent == [t |-> "absent", n |-> 0, s |-> ""]

\* String-keyed properties the model tracks.
Keys == {"message", "data", "code"}

NoProps == [k \in Keys |-> Absent]

\* Messages handed to mkFail (the empty string is permitted).
Messages == {"", "division by zero"}

\* Intrinsic objects of the realm.
ObjectPrototype == 1
ArrayPrototype == ObjectPrototype + 1

Intrinsics == {ObjectPrototype, ArrayPrototype}

\* An ordinary object: its class (internal slots), prototype, own
\* string-keyed properties, own symbol-keyed properties, and whether it
\* was frozen.
Obj(class, proto, props, syms, frozen) ==
    [class |-> class, proto |-> proto, props |-> props, syms |-> syms,
     frozen |-> frozen]

Addrs(h) == 1 .. Len(h)

UserAddrs(h) == Addrs(h) \ Intrinsics

IsRef(v) == v.t = "object"

\* Primitive values handed to isFail.
Primitives == {Undefined, Null, Num(42), Str("division by zero"), Bool(TRUE)}

----------------------------------------------------------------------------
\* The language operations the module relies on.

\* Object.prototype.toString.call(item): "[object " + tag + "]", the tag
\* being the builtin tag of the value (no value of the model defines
\* Symbol.toStringTag).
BuiltinTag(h, item) ==
    CASE item.t = "undefined" -> "Undefined"
      [] item.t = "null" -> "Null"
      [] item.t = "number" -> "Number"
      [] item.t = "string" -> "String"
      [] item.t = "boolean" -> "Boolean"
      [] item.t = "object" ->
            IF h[item.n].class = "Array" THEN "Array" ELSE "Object"

toString(h, item) == "[object " \o BuiltinTag(h, item) \o "]"

\* Mutant: typeof item === 'object', which null satisfies too.
isObject_typeof(h, item) == item.t \in {"object", "null"}

\* const isObject = (item) => toString.call(item) === '[object Object]'
isObject(h, item) == toString(h, item) = "[object Object]"

\* Mutant: an own-property test instead of `in`.
HasSymbol_OwnOnly(h, a, sym) == sym \in h[a].syms

\* HasProperty(O, sym) for a symbol key: own, or along the prototype chain.
RECURSIVE HasSymbol(_, _, _)
HasSymbol(h, a, sym) ==
    \/ sym \in h[a].syms
    \/ /\ IsRef(h[a].proto)
       /\ HasSymbol(h, h[a].proto.n, sym)

\* HasProperty(O, key) and Get(O, key) for a string key.
RECURSIVE HasProperty(_, _, _)
HasProperty(h, a, key) ==
    \/ h[a].props[key] # Absent
    \/ /\ IsRef(h[a].proto)
       /\ HasProperty(h, h[a].proto.n, key)

RECURSIVE Get(_, _, _)
Get(h, a, key) ==
    IF h[a].props[key] # Absent THEN h[a].props[key]
    ELSE IF IsRef(h[a].proto) THEN Get(h, h[a].proto.n, key)
    ELSE Undefined

\* An outcome of an expression: the value returned, or a TypeError thrown.
Returned(v) == [threw |-> FALSE, ret |-> v]
Thrown == [threw |-> TRUE, ret |-> Undefined]

\* `sym in val`: a TypeError when val is not an object.
In(h, sym, val) ==
    IF ~IsRef(val) THEN Thrown
    ELSE Returned(Bool(HasSymbol(h, val.n, sym)))

\* Mutant: the object is left unfrozen.
ObjectFreeze_NoOp(o) == o

\* Object.freeze(o), applied to the object record.
ObjectFreeze(o) == [o EXCEPT !.frozen = TRUE]

\* Object.create(proto)
ObjectCreate(proto) == Obj("Object", proto, NoProps, {}, FALSE)

\* o[key] = v on an ordinary object: refused when o is frozen.
CanSet(h, a) == ~h[a].frozen

\* Mutant: recognition by the shape of the record (a message field).
isFail_DuckTyped(h, m, val) ==
    Returned(Bool(isObject(h, val) /\ HasProperty(h, val.n, "message")))

\* Mutant: the discriminant lookup is left out.
isFail_ShapeOnly(h, m, val) == Returned(Bool(isObject(h, val)))

\* export const isFail = (val) => isObject(val) && __fail__ in val
\* in the module instance m (a record [fail, empty]).
isFail(h, m, val) ==
    IF ~isObject(h, val) THEN Returned(Bool(FALSE))
    ELSE In(h, m.fail, val)

\* The record mkFail(message, data) builds in module instance m:
\* { [__fail__]: true, message, data }, data defaulting to `empty` when the
\* argument is undefined (omitted).
DataOrDefault(m, data) == IF data = Undefined THEN Ref(m.empty) ELSE data

\* Mutant: the discriminant key is left out of the record.
mkFailRecord_NoTag(m, message, data) ==
    Obj("Object", Ref(ObjectPrototype),
        [NoProps EXCEPT !["message"] = Str(message),
                        !["data"] = DataOrDefault(m, data)],
        {}, FALSE)

\* Mutant: the data argument is dropped for the default.
mkFailRecord_DropsData(m, message, data) ==
    Obj("Object", Ref(ObjectPrototype),
        [NoProps EXCEPT !["message"] = Str(message),
                        !["data"] = Ref(m.empty)],
        {m.fail}, FALSE)

mkFailRecord(m, message, data) ==
    Obj("Object", Ref(ObjectPrototype),
        [NoProps EXCEPT !["message"] = Str(message),
                        !["data"] = DataOrDefault(m, data)],
        {m.fail}, FALSE)

----------------------------------------------------------------------------
\* State.
\*   heap     the objects, by address
\*   modules  the loaded copies of the module: [fail |-> its __fail__
\*            symbol, empty |-> the address of its `empty`]
\*   symbols  the number of symbols created so far (Symbol() is fresh)
\*   made     history: what each mkFail call was given and returned
\*   prov     history: how each object was built
\*   last     the last call and its outcome

LastRec(op, mod, arg, str, out) ==
    [op |-> op, mod |-> mod, arg |-> arg, str |-> str,
     ret |-> out.ret, threw |-> out.threw]

\* An isFail call has returned and its caller has not yet branched on it.
Pending == last.op = "isFail"

Prov(how, from, mod) == [how |-> how, from |-> from, mod |-> mod]

\* The failure values returned by mkFail so far.
MadeRefs == {f.ref : f \in made}

\* The objects built by mkFail and by caller code, and their number.
Built == {a \in DOMAIN prov : prov[a].how \notin {"intrinsic", "empty"}}

Allocs == Cardinality(Built)

\* Mutant: Symbol.for('fail'), the same registered symbol in every copy.
ModuleBody_SymbolFor(h, syms) ==
    [fail |-> 1, empty |-> Len(h) + 1,
     heap |-> Append(h, ObjectFreeze(ObjectCreate(Null)))]

\* Evaluation of the module body: a fresh symbol, and a frozen object
\* with no prototype.
ModuleBody(h, syms) ==
    [fail |-> syms + 1, empty |-> Len(h) + 1,
     heap |-> Append(h, ObjectFreeze(ObjectCreate(Null)))]

InitHeap ==
    << Obj("Object", Null, NoProps, {}, FALSE),
       Obj("Array", Ref(ObjectPrototype), NoProps, {}, FALSE) >>

\* The state once both copies of the module have been evaluated.
Init ==
    LET m1 == ModuleBody(InitHeap, 0)
        m2 == ModuleBody(m1.heap, 1) IN
    /\ heap = m2.heap
    /\ modules = << [fail |-> m1.fail, empty |-> m1.empty],
                    [fail |-> m2.fail, empty |-> m2.empty] >>
    /\ symbols = Cardinality(Instances)
    /\ made = {}
    /\ prov = << Prov("intrinsic", 0, 0), Prov("intrinsic", 0, 0),
                 Prov("empty", 0, 1), Prov("empty", 0, 2) >>
    /\ last = LastRec("load", 2, Undefined, "", Returned(Undefined))

\* Mutant: `data = {}`, a fresh default container per call.
MkFail_FreshDefault(i, message, data) ==
    /\ ~Pending
    /\ Allocs < MaxAllocs
    /\ LET d == Len(heap) + 1
           a == IF data = Undefined THEN d + 1 ELSE d
           h == IF data = Undefined
                THEN Append(heap, Obj("Object", Ref(ObjectPrototype),
                                      NoProps, {}, FALSE))
                ELSE heap
           rec == [mkFailRecord(modules[i], message, data)
                     EXCEPT !.props["data"] =
                        IF data = Undefined THEN Ref(d) ELSE data] IN
       /\ heap' = Append(h, rec)
       /\ made' = made \cup {[ref |-> a, mod |-> i, message |-> message,
                              data |-> data,
                              message0 |-> rec.props["message"],
                              data0 |-> rec.props["data"]]}
       /\ prov' = IF data = Undefined
                  THEN prov \o << Prov("literal", 0, 0), Prov("mkFail", 0, i) >>
                  ELSE Append(prov, Prov("mkFail", 0, i))
       /\ last' = LastRec("mkFail", i, data, message, Returned(Ref(a)))
    /\ UNCHANGED <<modules, symbols>>

\* Mutant: the record is pooled, a later call rewriting the one returned
\* before.
MkFail_Pooled(i, message, data) ==
    /\ ~Pending
    /\ Allocs < MaxAllocs
    /\ LET rec == mkFailRecord(modules[i], message, data)
           a == IF made = {} THEN Len(heap) + 1
                ELSE CHOOSE r \in MadeRefs : TRUE IN
       /\ heap' = IF made = {} THEN Append(heap, rec)
                  ELSE [heap EXCEPT ![a] = rec]
       /\ made' = made \cup {[ref |-> a, mod |-> i, message |-> message,
                              data |-> data,
                              message0 |-> rec.props["message"],
                              data0 |-> rec.props["data"]]}
       /\ prov' = IF made = {} THEN Append(prov, Prov("mkFail", 0, i))
                  ELSE prov
       /\ last' = LastRec("mkFail", i, data, message, Returned(Ref(a)))
    /\ UNCHANGED <<modules, symbols>>

\* mkFail(message, data) of module instance i; data = Undefined is the call
\* without a data argument.
MkFail(i, message, data) ==
    /\ ~Pending
    /\ Allocs < MaxAllocs
    /\ LET a == Len(heap) + 1
           rec == mkFailRecord(modules[i], message, data) IN
       /\ heap' = Append(heap, rec)
       /\ made' = made \cup {[ref |-> a, mod |-> i, message |-> message,
                              data |-> data,
                              message0 |-> rec.props["message"],
                              data0 |-> rec.props["data"]]}
       /\ prov' = Append(prov, Prov("mkFail", 0, i))
       /\ last' = LastRec("mkFail", i, data, message, Returned(Ref(a)))
    /\ UNCHANGED <<modules, symbols>>

\* isFail(val) of module instance i.  The caller that asked holds the
\* answer (Pending) until it has branched on it.
IsFail(i, val) ==
    /\ ~Pending
    /\ last' = LastRec("isFail", i, val, "", isFail(heap, modules[i], val))
    /\ UNCHANGED <<heap, modules, symbols, made, prov>>

----------------------------------------------------------------------------
\* Caller code: it builds ordinary values and writes to the failures it
\* holds.  The module's symbol is not exported, so caller code never names
\* it; it reaches an object only through copies and prototypes.

\* The values a caller passes to isFail: primitives and every object.
Values == Primitives \cup {Ref(a) : a \in UserAddrs(heap)}

\* The values a caller uses as data: a number, or an object it built.
DataValues == {Num(42)} \cup {Ref(a) : a \in Built}

\* An object literal: { code: 42 } or { message: m, data: d }.
Literals ==
    {[NoProps EXCEPT !["code"] = Num(42)]}
    \cup {[NoProps EXCEPT !["message"] = Str("division by zero"),
                          !["data"] = d] : d \in DataValues}

Alloc(obj, p, l) ==
    /\ ~Pending
    /\ Allocs < MaxAllocs
    /\ heap' = Append(heap, obj)
    /\ prov' = Append(prov, p)
    /\ last' = LastRec(l, 0, Undefined, "", Returned(Ref(Len(heap) + 1)))
    /\ UNCHANGED <<modules, symbols, made>>

NewRecord(props) ==
    Alloc(Obj("Object", Ref(ObjectPrototype), props, {}, FALSE),
          Prov("literal", 0, 0), "literal")

\* An array; proto is Array.prototype, or another object given to
\* Object.setPrototypeOf([], proto).
NewArray(proto) ==
    Alloc(Obj("Array", proto, NoProps, {}, FALSE),
          Prov("array", IF proto = Ref(ArrayPrototype) THEN 0 ELSE proto.n, 0),
          "array")

\* { ...src }: the own enumerable properties of src, symbol keys included.
CopyRecord(src) ==
    Alloc(Obj("Object", Ref(ObjectPrototype), heap[src].props,
              heap[src].syms, FALSE),
          Prov("copy", src, 0), "copy")

\* Object.create(proto), proto an object or null.
CreateFrom(proto) ==
    Alloc(ObjectCreate(proto),
          Prov("create", IF IsRef(proto) THEN proto.n ELSE 0, 0), "create")

\* The writes a caller makes to a failure f it holds, by the declared
\* types: f.message = <a string>, f.data = f (a cycle), and, for an f
\* built without a data argument, f.data.code = 42.
WriteTargets(key) ==
    IF key = "code"
    THEN {f.data0.n : f \in {g \in made : g.data = Undefined}}
    ELSE {f.ref : f \in made}

FieldValues(a, key) ==
    CASE key = "message" -> {Str(m) : m \in Messages}
      [] key = "data" -> {Ref(a)}
      [] key = "code" -> {Num(42)}

\* o[key] = v.  On a frozen object nothing is written; strict code gets a
\* TypeError, sloppy code nothing.
Write(a, key, v, strict) ==
    /\ ~Pending
    /\ heap' = IF CanSet(heap, a)
               THEN [heap EXCEPT ![a].props[key] = v]
               ELSE heap
    /\ last' = LastRec("write", 0, Ref(a), key,
                       IF ~CanSet(heap, a) /\ strict THEN Thrown
                       ELSE Returned(Undefined))
    /\ UNCHANGED <<modules, symbols, made, prov>>

\* if (isFail(res)) { ... } else { ... }: the caller takes the branch the
\* answer selects, and goes on.
Branch ==
    /\ Pending
    /\ last' = LastRec("branch", 0, Undefined, "", Returned(Undefined))
    /\ UNCHANGED <<heap, modules, symbols, made, prov>>

Next ==
    \/ \E i \in DOMAIN modules, m \in Messages :
          \E d \in {Undefined} \cup DataValues : MkFail(i, m, d)
    \/ \E i \in DOMAIN modules, v \in Values : IsFail(i, v)
    \/ \E props \in Literals : NewRecord(props)
    \/ \E p \in {Ref(ArrayPrototype)} \cup {Ref(a) : a \in Built} : NewArray(p)
    \/ \E src \in Built : CopyRecord(src)
    \/ \E p \in {Null} \cup {Ref(a) : a \in Built} : CreateFrom(p)
    \/ \E key \in Keys, strict \in BOOLEAN :
          \E a \in WriteTargets(key) :
             \E v \in FieldValues(a, key) : Write(a, key, v, strict)
    \/ Branch

Spec == Init /\ [][Next]_vars

----------------------------------------------------------------------------
\* History predicates, from how each object was built (prov).

MadeBy(a) == CHOOSE f \in made : f.ref = a

\* The object owns module i's discriminant by construction: mkFail of
\* module i returned it, or it is a copy of such an object.
RECURSIVE OwnsTag(_, _)
OwnsTag(i, a) ==
    \/ prov[a].how = "mkFail" /\ prov[a].mod = i
    \/ prov[a].how = "copy" /\ OwnsTag(i, prov[a].from)

\* ... or reaches it through the prototype it was given.
RECURSIVE ReachesTag(_, _)
ReachesTag(i, a) ==
    \/ OwnsTag(i, a)
    \/ /\ prov[a].how \in {"create", "array"}
       /\ prov[a].from # 0
       /\ ReachesTag(i, prov[a].from)

\* A plain record built without any failure value: a literal, or a copy
\* or Object.create of one (or of null).
RECURSIVE PlainRecord(_)
PlainRecord(a) ==
    \/ prov[a].how = "literal"
    \/ prov[a].how = "copy" /\ PlainRecord(prov[a].from)
    \/ /\ prov[a].how = "create"
       /\ prov[a].from = 0 \/ PlainRecord(prov[a].from)

IsArray(v) == IsRef(v) /\ heap[v.n].class = "Array"

----------------------------------------------------------------------------
\* Properties.

\* C1: the value mkFail returns, with or without a data argument,
\* satisfies isFail of the same module: it returns true and throws nothing.
C1_RecognizesConstructed ==
    last.op = "mkFail" =>
        isFail(heap, modules[last.mod], last.ret) = Returned(Bool(TRUE))

C1_Witness ==
    /\ last.op = "mkFail"
    /\ last.arg = Undefined
    /\ \E f \in made : f.data # Undefined

\* C2 as stated: isFail(v) is true exactly for the values mkFail (of the
\* same module) returned, whatever else the caller built.
C2_Original ==
    last.op = "isFail" =>
        (last.ret = Bool(TRUE) <=>
            /\ IsRef(last.arg)
            /\ \E f \in made : f.ref = last.arg.n /\ f.mod = last.mod)

\* C2 amended: isFail(v) is true exactly for the plain records (not
\* arrays) that own the module's discriminant, as the values mkFail
\* returned and their copies do, or reach it through their prototype
\* chain; it is false for every other value.
C2_RecognizesTagged ==
    last.op = "isFail" =>
        /\ ~last.threw
        /\ (last.ret = Bool(TRUE) <=>
               /\ IsRef(last.arg)
               /\ ~IsArray(last.arg)
               /\ ReachesTag(last.mod, last.arg.n))

C2_Witness ==
    /\ last.op = "isFail"
    /\ last.ret = Bool(TRUE)
    /\ IsRef(last.arg)
    /\ prov[last.arg.n].how = "create"

\* C3: the record mkFail(m, d) returns has message equal to m and data
\* identical to d (the same reference when d is an object).
C3_CarriesArguments ==
    last.op = "mkFail" =>
        /\ Get(heap, last.ret.n, "message") = Str(last.str)
        /\ last.arg # Undefined => Get(heap, last.ret.n, "data") = last.arg

C3_Witness ==
    /\ last.op = "mkFail"
    /\ IsRef(last.arg)
    /\ last.str = ""

C5_Original ==
    (last.op = "isFail" /\ IsRef(last.arg) /\ last.arg.n \in MadeRefs) =>
        last.ret = Bool(TRUE)

\* C5 amended: isFail returns true for a failure value made by mkFail of
\* the same loaded copy of the module, in whatever call, and false for
\* one made by another copy: each copy creates its own symbol.
C5_RecognizesOwnInstanceOnly ==
    (last.op = "isFail" /\ IsRef(last.arg) /\ last.arg.n \in MadeRefs) =>
        last.ret = Bool(MadeBy(last.arg.n).mod = last.mod)

C5_Witness ==
    /\ last.op = "isFail"
    /\ IsRef(last.arg)
    /\ last.arg.n \in MadeRefs
    /\ MadeBy(last.arg.n).mod # last.mod
    /\ last.ret = Bool(FALSE)

\* C6: mkFail called without a data argument yields the module's one
\* `empty` record as data, an empty record, the same reference for every
\* such call.
C6_SharedDefault ==
    \A f, g \in made :
        (f.data = Undefined /\ g.data = Undefined /\ f.mod = g.mod) =>
            /\ f.data0 = g.data0
            /\ IsRef(f.data0)
            /\ heap[f.data0.n].props = NoProps
            /\ heap[f.data0.n].syms = {}
            /\ prov[f.data0.n] = Prov("empty", 0, f.mod)

C6_Witness ==
    \E f, g \in made :
        /\ f.ref # g.ref
        /\ f.mod = g.mod
        /\ f.data = Undefined
        /\ g.data = Undefined

\* C7: isFail of a primitive, of null or undefined, or of an array
\* returns false and throws nothing.
C7_RejectsNonRecords ==
    (last.op = "isFail" /\ (last.arg \in Primitives \/ IsArray(last.arg))) =>
        /\ last.ret = Bool(FALSE)
        /\ ~last.threw

C7_Witness ==
    /\ last.op = "isFail"
    /\ last.arg = Null
    /\ \E a \in Built : heap[a].class = "Array" /\ prov[a].from \in MadeRefs

\* C8: isFail of a plain record built without the discriminant returns
\* false, also when the record has a string message and an object data.
C8_RejectsPlainRecords ==
    (last.op = "isFail" /\ IsRef(last.arg) /\ PlainRecord(last.arg.n)) =>
        last.ret = Bool(FALSE)

C8_Witness ==
    /\ last.op = "isFail"
    /\ IsRef(last.arg)
    /\ prov[last.arg.n].how = "literal"
    /\ heap[last.arg.n].props["message"].t = "string"
    /\ IsRef(heap[last.arg.n].props["data"])
    /\ last.ret = Bool(FALSE)

C10_DefaultStaysEmpty ==
    \A i \in DOMAIN modules :
        /\ heap[modules[i].empty].props = NoProps
        /\ heap[modules[i].empty].syms = {}

C10_Witness ==
    /\ last.op = "write"
    /\ last.arg = Ref(modules[1].empty)
    /\ Cardinality({f \in made : f.data = Undefined /\ f.mod = 1}) = 2

====
